---- MODULE Spec2Model ----
(***************************************************************************)
(* Model of process.py: the command line dispatcher, the file-id resolver  *)
(* get_file_ids, and the three batch loops process_files,                  *)
(* process_lab_files and process_wav_files.                                *)
(*                                                                         *)
(* File names and ids are sequences of one-character strings, so that      *)
(* str.endswith, the slice x[:-len('.lab')] and '{}.ext'.format(id) are    *)
(* computed as Python computes them.  The collaborators (label_io,         *)
(* feature_io, file_io) are not part of process.py; their results are      *)
(* uninterpreted terms over their arguments, and each call may raise.      *)
(***************************************************************************)
EXTENDS Integers, Sequences, FiniteSets, TLC

(* ------------------------------ bounds --------------------------------- *)
MaxFiles == 2      \* most entries in one directory
MaxIds   == 2      \* most lines in the id list file

(* --------------------------- strings, paths ---------------------------- *)
None == "None"     \* Python's None (argparse default of the optional flags)

LabSuffix   == <<".", "l", "a", "b">>
WavSuffix   == <<".", "w", "a", "v">>
ProtoSuffix == <<".", "p", "r", "o", "t", "o">>
DurSuffix   == <<".", "d", "u", "r">>
F0Suffix    == <<".", "f", "0">>
MgcSuffix   == <<".", "m", "g", "c">>
BapSuffix   == <<".", "b", "a", "p">>

P == <<"p">>
Q == <<"q">>
Ids == {P, Q}

\* the file names a directory of the model may hold
FileNames == {P \o LabSuffix, Q \o LabSuffix, P \o WavSuffix, Q \o WavSuffix}

LabDir == "lab"
WavDir == "wav"
out_dir == "out"

Range(s) == {s[k] : k \in 1..Len(s)}

SeqsUpTo(S, n) == UNION {[1..k -> S] : k \in 0..n}

\* directory listings: distinct entries, in the order os.listdir yields them
Listings == {s \in SeqsUpTo(FileNames, MaxFiles) : Cardinality(Range(s)) = Len(s)}

\* id list files: any lines, repeated ids included
IdLists == SeqsUpTo(Ids, MaxIds)

\* os.path.join(dir, name)
join(dir, name) == <<dir, name>>

\* '{}<suffix>'.format(file_id)
format(file_id, suffix) == file_id \o suffix

\* f.endswith(suffix)
endswith(f, suffix) ==
    /\ Len(f) >= Len(suffix)
    /\ SubSeq(f, Len(f) - Len(suffix) + 1, Len(f)) = suffix

\* variant: x[:-len('lab')]
strip_lab_short(x) == SubSeq(x, 1, Len(x) - (Len(LabSuffix) - 1))

\* x[:-len('.lab')]
strip_lab(x) == SubSeq(x, 1, Len(x) - Len(LabSuffix))

\* bool(x) of an argparse string option
Truthy(x) == x # None /\ x # ""

VARIABLES
    lab_dir, wav_dir, id_list, state_level,   \* parsed arguments
    fs,            \* directory name -> listing
    id_lines,      \* lines of the id list file
    lazy,          \* filter/map return iterators (Python 3) or lists (Python 2)
    pc,            \* "start", "resolve", "loop", "done", "error"
    mode,          \* mode chosen by the dispatcher
    ran,           \* modes entered so far, in order
    file_ids, _file_ids,
    i, stmt,       \* loop position: index of the id, statement of the body
    label, wav, binary_label, duration, feats,   \* locals of the loop body
    labels_loaded, wavs_loaded,                  \* paths given to Label / Wav
    out,           \* output path -> content written by this run
    error          \* "none" or the exception that ended the run

vars == <<lab_dir, wav_dir, id_list, state_level, fs, id_lines, lazy, pc, mode,
          ran, file_ids, _file_ids, i, stmt, label, wav, binary_label,
          duration, feats, labels_loaded, wavs_loaded, out, error>>

inputs == <<lab_dir, wav_dir, id_list, state_level, fs, id_lines, lazy>>
locals == <<label, wav, binary_label, duration, feats>>

(* ---------------------------- collaborators ---------------------------- *)
\* label_io.load_txt(id_list)
load_txt(path) == id_lines

\* os.listdir(dir)
listdir(dir) == fs[dir]

\* os.path.exists, as seen by the Label and Wav constructors
exists(path) == path[2] \in Range(fs[path[1]])

\* label_io.Label(lab_path, state_level)
Label(lab_path, sl) == <<"Label", lab_path, sl>>
\* label.binarise('')
binarise(l) == <<"binarise", l>>
\* label.count_frames()
count_frames(l) == <<"count_frames", l>>
\* feature_io.Wav(wav_path)
Wav(wav_path) == <<"Wav", wav_path>>
\* wav.extract_features()
extract_features(w) == <<<<"f0", w>>, <<"mgc", w>>, <<"bap", w>>>>

\* file_io.save_proto / save_txt / save_bin
save(files, path, content) ==
    [q \in (DOMAIN files) \cup {path} |-> IF q = path THEN content ELSE files[q]]

Unset == <<>>

(* ----------------------------- get_file_ids ---------------------------- *)
\* variant: the id list is filtered by the entries of dir
get_file_ids_checked(dir, idl, obj) ==
    IF idl = None
    THEN LET kept == SelectSeq(listdir(dir), LAMBDA f : endswith(f, LabSuffix))
         IN  [ids  |-> [k \in 1..Len(kept) |-> strip_lab(kept[k])],
              lazy |-> lazy, obj |-> obj]
    ELSE [ids  |-> SelectSeq(load_txt(idl),
                     LAMBDA x : format(x, LabSuffix) \in Range(listdir(dir))),
          lazy |-> FALSE, obj |-> obj]

\* the value bound to file_ids: its elements, whether it is a lazy iterator
\* (filter/map of Python 3) and the identity of the object
get_file_ids(dir, idl, obj) ==
    IF idl = None
    THEN LET kept == SelectSeq(listdir(dir), LAMBDA f : endswith(f, LabSuffix))
         IN  [ids  |-> [k \in 1..Len(kept) |-> strip_lab(kept[k])],
              lazy |-> lazy, obj |-> obj]
    ELSE [ids |-> load_txt(idl), lazy |-> FALSE, obj |-> obj]

\* variant: lists compared as sets
NotEqual_unordered(a, b) ==
    IF a.lazy \/ b.lazy THEN a.obj # b.obj ELSE Range(a.ids) # Range(b.ids)

\* file_ids != _file_ids : lists compare element by element, iterator
\* objects by identity
NotEqual(a, b) ==
    IF a.lazy \/ b.lazy THEN a.obj # b.obj ELSE a.ids # b.ids

(* ------------------------------ dispatcher ----------------------------- *)
\* variant: the combined branch is missing
DispatchMode_nocombined(lab, wv) ==
    IF Truthy(lab) THEN "lab"
    ELSE IF Truthy(wv) THEN "wav"
    ELSE "none"

DispatchMode(lab, wv) ==
    IF Truthy(lab) /\ Truthy(wv) THEN "combined"
    ELSE IF Truthy(lab) THEN "lab"
    ELSE IF Truthy(wv) THEN "wav"
    ELSE "none"

(* ---------------------------- loop bodies ------------------------------ *)
\* variant: process_lab_files saves the binary label before the duration
Body_labfirst(m) ==
    CASE m = "combined" -> <<"Label", "Wav", "binarise", "count_frames",
                             "extract_features", "save_proto">>
      [] m = "lab"      -> <<"Label", "binarise", "save_lab", "count_frames",
                             "save_dur">>
      [] m = "wav"      -> <<"Wav", "extract_features", "save_f0", "save_mgc",
                             "save_bap">>
      [] OTHER          -> <<>>

\* the statements of each loop body, in program order
Body(m) ==
    CASE m = "combined" -> <<"Label", "Wav", "binarise", "count_frames",
                             "extract_features", "save_proto">>
      [] m = "lab"      -> <<"Label", "count_frames", "save_dur", "binarise",
                             "save_lab">>
      [] m = "wav"      -> <<"Wav", "extract_features", "save_f0", "save_mgc",
                             "save_bap">>
      [] OTHER          -> <<>>

\* variant: f0 and mgc swapped in the dict
features_swapped(bl, dur, f) ==
    [lab |-> bl, duration |-> dur, f0 |-> f[2], mgc |-> f[1], bap |-> f[3]]

\* the features dict of process_files
features(bl, dur, f) ==
    [lab |-> bl, duration |-> dur, f0 |-> f[1], mgc |-> f[2], bap |-> f[3]]

\* output file names
proto_name(file_id) == format(file_id, ProtoSuffix)
\* variant: the duration goes to the .lab path
dur_name_lab(file_id) == format(file_id, LabSuffix)
dur_name(file_id)   == format(file_id, DurSuffix)
lab_name(file_id)   == format(file_id, LabSuffix)
f0_name(file_id)    == format(file_id, F0Suffix)
\* variant: the spectral envelope goes to the .f0 path
mgc_name_f0(file_id) == format(file_id, F0Suffix)
mgc_name(file_id)   == format(file_id, MgcSuffix)
bap_name(file_id)   == format(file_id, BapSuffix)

file_id == file_ids.ids[i]
At(s) == pc = "loop" /\ Body(mode)[stmt] = s

\* control after a statement of the body completes
Advance ==
    IF stmt < Len(Body(mode))
    THEN /\ stmt' = stmt + 1 /\ i' = i /\ pc' = pc
    ELSE /\ stmt' = 1
         /\ i' = i + 1
         /\ pc' = IF i < Len(file_ids.ids) THEN "loop" ELSE "done"

\* control on entering a for loop over ids
EnterLoop(ids) ==
    /\ i' = 1
    /\ stmt' = 1
    /\ pc' = IF Len(ids) > 0 THEN "loop" ELSE "done"

(* ------------------------------- Init ---------------------------------- *)
Init ==
    /\ lab_dir \in {None, "", LabDir}
    /\ wav_dir \in {None, "", WavDir}
    /\ id_list \in {None, "ids.txt"}
    /\ state_level \in BOOLEAN
    /\ lazy \in BOOLEAN
    /\ fs \in [{LabDir, WavDir} -> Listings]
    /\ id_lines \in IdLists
    \* what the run never reads is left at one value: a directory that is
    \* not supplied, the id list file and state_level when their option is
    \* not used, and the flavour of filter/map when they are not called
    /\ (~Truthy(lab_dir)) => (fs[LabDir] = <<>> /\ ~state_level)
    /\ (~Truthy(wav_dir)) => fs[WavDir] = <<>>
    /\ (id_list = None) => id_lines = <<>>
    /\ (id_list # None) => ~lazy
    /\ pc = "start"
    /\ mode = "unset"
    /\ ran = <<>>
    /\ file_ids = [ids |-> <<>>, lazy |-> FALSE, obj |-> 0]
    /\ _file_ids = [ids |-> <<>>, lazy |-> FALSE, obj |-> 0]
    /\ i = 0
    /\ stmt = 0
    /\ label = Unset /\ wav = Unset /\ binary_label = Unset
    /\ duration = Unset /\ feats = Unset
    /\ labels_loaded = {} /\ wavs_loaded = {}
    /\ out = <<>>
    /\ error = "none"

(* ------------------------------ actions -------------------------------- *)
\* __main__: the if / elif / elif chain
Dispatch ==
    /\ pc = "start"
    /\ mode' = DispatchMode(lab_dir, wav_dir)
    /\ ran' = IF mode' = "none" THEN ran ELSE Append(ran, mode')
    /\ pc' = IF mode' = "none" THEN "done" ELSE "resolve"
    /\ UNCHANGED <<inputs, file_ids, _file_ids, i, stmt, locals,
                   labels_loaded, wavs_loaded, out, error>>

\* os.listdir or load_txt raises (missing or unreadable directory / list file)
ResolveFail ==
    /\ pc = "resolve"
    /\ pc' = "error"
    /\ error' = "IOError"
    /\ UNCHANGED <<inputs, mode, ran, file_ids, _file_ids, i, stmt, locals,
                   labels_loaded, wavs_loaded, out>>

\* process_files, up to the for loop
process_files_resolve ==
    /\ pc = "resolve" /\ mode = "combined"
    /\ file_ids' = get_file_ids(lab_dir, id_list, 1)
    /\ _file_ids' = get_file_ids(wav_dir, id_list, 2)
    /\ IF NotEqual(file_ids', _file_ids')
       THEN /\ pc' = "error" /\ error' = "ValueError"
            /\ UNCHANGED <<i, stmt>>
       ELSE /\ EnterLoop(file_ids'.ids)
            /\ UNCHANGED error
    /\ UNCHANGED <<inputs, mode, ran, locals, labels_loaded, wavs_loaded, out>>

\* process_lab_files, up to the for loop
process_lab_files_resolve ==
    /\ pc = "resolve" /\ mode = "lab"
    /\ file_ids' = get_file_ids(lab_dir, id_list, 1)
    /\ EnterLoop(file_ids'.ids)
    /\ UNCHANGED <<inputs, mode, ran, _file_ids, locals, labels_loaded,
                   wavs_loaded, out, error>>

\* process_wav_files, up to the for loop
process_wav_files_resolve ==
    /\ pc = "resolve" /\ mode = "wav"
    /\ file_ids' = get_file_ids(wav_dir, id_list, 1)
    /\ EnterLoop(file_ids'.ids)
    /\ UNCHANGED <<inputs, mode, ran, _file_ids, locals, labels_loaded,
                   wavs_loaded, out, error>>

\* label = label_io.Label(lab_path, state_level)
LoadLabel ==
    /\ At("Label")
    /\ LET lab_path == join(lab_dir, format(file_id, LabSuffix))
       IN  /\ exists(lab_path)
           /\ label' = Label(lab_path, state_level)
           /\ labels_loaded' = labels_loaded \cup {lab_path}
    /\ Advance
    /\ UNCHANGED <<inputs, mode, ran, file_ids, _file_ids, wav, binary_label,
                   duration, feats, wavs_loaded, out, error>>

\* wav = feature_io.Wav(wav_path)
LoadWav ==
    /\ At("Wav")
    /\ LET wav_path == join(wav_dir, format(file_id, WavSuffix))
       IN  /\ exists(wav_path)
           /\ wav' = Wav(wav_path)
           /\ wavs_loaded' = wavs_loaded \cup {wav_path}
    /\ Advance
    /\ UNCHANGED <<inputs, mode, ran, file_ids, _file_ids, label, binary_label,
                   duration, feats, labels_loaded, out, error>>

\* binary_label = label.binarise('')
Binarise ==
    /\ At("binarise")
    /\ binary_label' = binarise(label)
    /\ Advance
    /\ UNCHANGED <<inputs, mode, ran, file_ids, _file_ids, label, wav,
                   duration, feats, labels_loaded, wavs_loaded, out, error>>

\* duration = label.count_frames()
CountFrames ==
    /\ At("count_frames")
    /\ duration' = count_frames(label)
    /\ Advance
    /\ UNCHANGED <<inputs, mode, ran, file_ids, _file_ids, label, wav,
                   binary_label, feats, labels_loaded, wavs_loaded, out, error>>

\* f0, mgc, bap = wav.extract_features()
ExtractFeatures ==
    /\ At("extract_features")
    /\ feats' = extract_features(wav)
    /\ Advance
    /\ UNCHANGED <<inputs, mode, ran, file_ids, _file_ids, label, wav,
                   binary_label, duration, labels_loaded, wavs_loaded, out,
                   error>>

\* a statement that writes one output file
SaveStmt(s, name, content) ==
    /\ At(s)
    /\ out' = save(out, join(out_dir, name), content)
    /\ Advance
    /\ UNCHANGED <<inputs, mode, ran, file_ids, _file_ids, locals,
                   labels_loaded, wavs_loaded, error>>

\* file_io.save_proto(features, feature_path)
SaveProto ==
    SaveStmt("save_proto", proto_name(file_id),
             features(binary_label, duration, feats))

\* file_io.save_txt(duration, duration_path)
SaveDur == SaveStmt("save_dur", dur_name(file_id), duration)

\* file_io.save_bin(binary_label, binary_label_path)
SaveLab == SaveStmt("save_lab", lab_name(file_id), binary_label)

\* file_io.save_bin(f0 / mgc / bap, ...)
SaveF0  == SaveStmt("save_f0", f0_name(file_id), feats[1])
SaveMgc == SaveStmt("save_mgc", mgc_name(file_id), feats[2])
SaveBap == SaveStmt("save_bap", bap_name(file_id), feats[3])

\* variant: the exception is caught and the loop goes on with the next id
FailSkip ==
    /\ pc = "loop"
    /\ stmt' = 1
    /\ i' = i + 1
    /\ pc' = IF i < Len(file_ids.ids) THEN "loop" ELSE "done"
    /\ UNCHANGED <<inputs, mode, ran, file_ids, _file_ids, locals,
                   labels_loaded, wavs_loaded, out, error>>

\* a collaborator call of the loop body raises; nothing catches it
Fail ==
    /\ pc = "loop"
    /\ pc' = "error"
    /\ error' = "CollaboratorError"
    /\ UNCHANGED <<inputs, mode, ran, file_ids, _file_ids, i, stmt, locals,
                   labels_loaded, wavs_loaded, out>>

Next ==
    \/ Dispatch
    \/ ResolveFail
    \/ process_files_resolve
    \/ process_lab_files_resolve
    \/ process_wav_files_resolve
    \/ LoadLabel
    \/ LoadWav
    \/ Binarise
    \/ CountFrames
    \/ ExtractFeatures
    \/ SaveProto
    \/ SaveDur
    \/ SaveLab
    \/ SaveF0
    \/ SaveMgc
    \/ SaveBap
    \/ Fail

Spec == Init /\ [][Next]_vars

(* ------------------------- vocabulary of the claims -------------------- *)
ids == file_ids.ids
Resolved == pc \in {"loop", "done"} \/ error \in {"ValueError", "CollaboratorError"}
Written(name) == join(out_dir, name) \in DOMAIN out
Content(name) == out[join(out_dir, name)]
WrittenNames == {p[2] : p \in DOMAIN out}
HasSuffix(f, suffix) == \E n \in 0..Len(f) : f = SubSeq(f, 1, n) \o suffix

\* the output files one id gets in each mode
Outputs(m, x) ==
    CASE m = "combined" -> {x \o ProtoSuffix}
      [] m = "lab"      -> {x \o DurSuffix, x \o LabSuffix}
      [] m = "wav"      -> {x \o F0Suffix, x \o MgcSuffix, x \o BapSuffix}
      [] OTHER          -> {}

LabelOf(x) == <<"Label", <<lab_dir, x \o LabSuffix>>, state_level>>
WavOf(x) == <<"Wav", <<wav_dir, x \o WavSuffix>>>>

(* ------------------------------- C1 ------------------------------------ *)
\* C1: in combined mode, when the id sequence resolved from lab_dir differs
\* from the one resolved from wav_dir (as ordered sequences), the run has
\* aborted with ValueError, no Label or Wav was loaded and no output file
\* was written.
C1_MismatchAborts ==
    (mode = "combined" /\ Resolved /\ file_ids.ids # _file_ids.ids)
        => /\ pc = "error"
           /\ error = "ValueError"
           /\ labels_loaded = {} /\ wavs_loaded = {}
           /\ DOMAIN out = {}

C1_Witness ==
    /\ error = "ValueError"
    /\ file_ids.ids = <<P, Q>>
    /\ _file_ids.ids = <<Q, P>>
    /\ ~lazy

(* ------------------------------- C2 ------------------------------------ *)
\* C2: the mode is a function of which directories were supplied: combined
\* if both, else label-only if lab_dir, else waveform-only if wav_dir; at
\* most one mode runs; with neither, no mode runs, nothing is loaded or
\* written and the run completes without error.
C2_Dispatch ==
    pc # "start" =>
        /\ (lab_dir \notin {None, ""} /\ wav_dir \notin {None, ""}) => mode = "combined"
        /\ (lab_dir \notin {None, ""} /\ wav_dir \in {None, ""}) => mode = "lab"
        /\ (lab_dir \in {None, ""} /\ wav_dir \notin {None, ""}) => mode = "wav"
        /\ (lab_dir \in {None, ""} /\ wav_dir \in {None, ""}) => mode = "none"
        /\ Len(ran) <= 1
        /\ ran = IF mode = "none" THEN <<>> ELSE <<mode>>
        /\ WrittenNames \subseteq UNION {Outputs(mode, x) : x \in Range(ids)}
        /\ mode = "none" =>
              /\ pc = "done" /\ error = "none"
              /\ DOMAIN out = {} /\ labels_loaded = {} /\ wavs_loaded = {}

C2_Witness ==
    /\ pc = "done" /\ mode = "none"
    /\ lab_dir = None /\ wav_dir = None

(* ------------------------------- C3 ------------------------------------ *)
\* C3: combined mode that passed validation and ended without failure has
\* written, for every id p, exactly p.proto and nothing else; the record has
\* exactly the fields lab, duration, f0, mgc, bap, with lab the binarised
\* label of lab_dir/p.lab, duration the frame count of that same label, and
\* f0, mgc, bap the features of wav_dir/p.wav.
C3_CombinedOutputs ==
    (mode = "combined" /\ pc = "done") =>
        /\ WrittenNames = {x \o ProtoSuffix : x \in Range(ids)}
        /\ \A x \in Range(ids) :
              LET r == Content(x \o ProtoSuffix)
              IN  /\ DOMAIN r = {"lab", "duration", "f0", "mgc", "bap"}
                  /\ r.lab = <<"binarise", LabelOf(x)>>
                  /\ r.duration = <<"count_frames", LabelOf(x)>>
                  /\ r.f0 = <<"f0", WavOf(x)>>
                  /\ r.mgc = <<"mgc", WavOf(x)>>
                  /\ r.bap = <<"bap", WavOf(x)>>

C3_Witness ==
    /\ mode = "combined" /\ pc = "done"
    /\ Range(ids) = {P, Q}
    /\ Written(P \o ProtoSuffix) /\ Written(Q \o ProtoSuffix)

C5_LabelOnlyOutputs ==
    mode = "lab" =>
        /\ wavs_loaded = {}
        /\ WrittenNames \subseteq
              UNION {{x \o DurSuffix, x \o LabSuffix} : x \in Range(ids)}
        /\ pc = "done" =>
              /\ WrittenNames =
                    UNION {{x \o DurSuffix, x \o LabSuffix} : x \in Range(ids)}
              /\ \A x \in Range(ids) :
                    /\ Content(x \o DurSuffix) = <<"count_frames", LabelOf(x)>>
                    /\ Content(x \o LabSuffix) = <<"binarise", LabelOf(x)>>

C5_Witness ==
    /\ mode = "lab" /\ pc = "done"
    /\ Range(ids) = {P, Q}
    /\ Cardinality(DOMAIN out) = 4

(* ------------------------------- C6 ------------------------------------ *)
\* C6: waveform-only mode never loads a Label and never writes a file other
\* than .f0 / .mgc / .bap of a resolved id; when it ends without failure
\* every resolved id p has exactly p.f0, p.mgc and p.bap, each holding the
\* corresponding sequence extracted from wav_dir/p.wav.
C6_WavOnlyOutputs ==
    mode = "wav" =>
        /\ labels_loaded = {}
        /\ WrittenNames \subseteq
              UNION {{x \o F0Suffix, x \o MgcSuffix, x \o BapSuffix} : x \in Range(ids)}
        /\ pc = "done" =>
              /\ WrittenNames =
                    UNION {{x \o F0Suffix, x \o MgcSuffix, x \o BapSuffix} : x \in Range(ids)}
              /\ \A x \in Range(ids) :
                    /\ Content(x \o F0Suffix) = <<"f0", WavOf(x)>>
                    /\ Content(x \o MgcSuffix) = <<"mgc", WavOf(x)>>
                    /\ Content(x \o BapSuffix) = <<"bap", WavOf(x)>>

C6_Witness ==
    /\ mode = "wav" /\ pc = "done"
    /\ ids = <<P>>
    /\ Cardinality(DOMAIN out) = 3

(* ------------------------------- C7 ------------------------------------ *)
\* what C7 says get_file_ids(dir, id_list) returned in r
ResolverResult(r, dir) ==
    IF id_list # None
    THEN r.ids = id_lines
    ELSE /\ Len(r.ids) = Cardinality({f \in Range(fs[dir]) : HasSuffix(f, LabSuffix)})
         /\ Cardinality(Range(r.ids)) = Len(r.ids)
         /\ \A k \in 1..Len(r.ids) : r.ids[k] \o LabSuffix \in Range(fs[dir])
         /\ \A f \in Range(fs[dir]) :
               HasSuffix(f, LabSuffix) => \E k \in 1..Len(r.ids) : r.ids[k] \o LabSuffix = f

\* C7: get_file_ids returns the lines of the id list in file order when an
\* id list is given, whatever the directory holds; otherwise one id per
\* directory entry that ends in '.lab', the suffix stripped, no duplicates,
\* every other entry excluded.  Resolving changes no file, directory,
\* output or loaded object.
C7_ResolverState ==
    Resolved =>
        /\ mode = "lab" => ResolverResult(file_ids, lab_dir)
        /\ mode = "wav" => ResolverResult(file_ids, wav_dir)
        /\ mode = "combined" =>
              /\ ResolverResult(file_ids, lab_dir)
              /\ ResolverResult(_file_ids, wav_dir)

C7_Resolver ==
    /\ []C7_ResolverState
    /\ [][pc = "resolve" =>
            /\ UNCHANGED <<fs, id_lines, out, labels_loaded, wavs_loaded>>]_vars

C7_Witness ==
    /\ mode = "lab" /\ pc = "loop" /\ id_list = None
    /\ fs[LabDir] = <<P \o WavSuffix, Q \o LabSuffix>>
    /\ ids = <<Q>>

(* ------------------------------- C8 ------------------------------------ *)
\* the basenames of the .wav entries of a listing, in listing order
WavBasenames(listing) ==
    LET kept == SelectSeq(listing, LAMBDA f : HasSuffix(f, WavSuffix))
    IN  [k \in 1..Len(kept) |-> SubSeq(kept[k], 1, Len(kept[k]) - Len(WavSuffix))]

\* C8: with no id list, the ids resolved for a waveform directory are the
\* basenames of its .wav files: waveform-only mode on p.wav processes p, and
\* combined mode on exactly p.lab and exactly p.wav passes the validation.
C8_WavIds ==
    (id_list = None /\ Resolved) =>
        /\ mode = "wav" => ids = WavBasenames(fs[WavDir])
        /\ (mode = "combined" /\ fs[LabDir] = <<P \o LabSuffix>>
                /\ fs[WavDir] = <<P \o WavSuffix>>)
              => error # "ValueError"

(* ------------------------------- C9 ------------------------------------ *)
FailedAtLabOutput ==
    /\ mode = "lab" /\ pc = "error" /\ error = "CollaboratorError"
    /\ Body(mode)[stmt] \in {"binarise", "save_lab"}

C10_IdListNeverMismatches ==
    (mode = "combined" /\ id_list # None) =>
        /\ error # "ValueError"
        /\ Resolved => (file_ids.ids = id_lines /\ _file_ids.ids = id_lines)
        /\ (pc = "loop" /\ Body(mode)[stmt] = "Label"
                /\ ids[i] \o LabSuffix \notin Range(fs[LabDir]))
              => (ENABLED Fail /\ ~ENABLED LoadLabel)
        /\ (pc = "loop" /\ Body(mode)[stmt] = "Wav"
                /\ ids[i] \o WavSuffix \notin Range(fs[WavDir]))
              => (ENABLED Fail /\ ~ENABLED LoadWav)
        /\ Resolved => \A k \in 1..(i - 1) : Written(ids[k] \o ProtoSuffix)

C10_Witness ==
    /\ mode = "combined" /\ id_list # None
    /\ pc = "error" /\ error = "CollaboratorError"
    /\ i = 2 /\ stmt = 1
    /\ ids[2] \o LabSuffix \notin Range(fs[LabDir])
    /\ Written(ids[1] \o ProtoSuffix)

====
